---- MODULE Spec2Model ----
(***************************************************************************)
(* Blob detection by scale-space Laplacian-of-Gaussian (src/blob.py):      *)
(* localMinima, blobLOG, sphereIntersection, circleIntersection,           *)
(* findBlobs and peakEnclosed.                                             *)
(*                                                                         *)
(* Floating-point values are modelled as decimal fixed-point numbers with  *)
(* Unit units per 1.0, together with the IEEE special values NaN and       *)
(* +/-infinity that numpy produces for 0/0, x/0, arccos and sqrt outside   *)
(* their domains.                                                          *)
(***************************************************************************)
EXTENDS Integers, Sequences, FiniteSets, TLC

(***************************************************************************)
(* Bounds of the model.                                                    *)
(***************************************************************************)
\* positions of the pruning inputs have first coordinate 0..MaxCoord (images
\* of shape (MaxCoord + 1, 2) and (MaxCoord + 1, 1, 1))
MaxCoord == 3
\* the scale set of the pruning inputs is range(1, MaxScale + 1)
MaxScale == 2
\* at most MaxPeaks local minima in a scale-space volume given to pruning
MaxPeaks == 3

(***************************************************************************)
(* Floating point: fixed-point numbers and the IEEE special values.        *)
(***************************************************************************)
Unit == 10 ^ 4

Num(v) == [k |-> "num", v |-> v]
NaN == [k |-> "nan", v |-> 0]
Inf(s) == [k |-> "inf", v |-> s]
FromInt(n) == Num(n * Unit)

IsNum(x) == x.k = "num"
IsNaN(x) == x.k = "nan"
IsInf(x) == x.k = "inf"

Abs(n) == IF n < 0 THEN -n ELSE n
Sgn(n) == IF n < 0 THEN -1 ELSE IF n = 0 THEN 0 ELSE 1
\* the sign of a float that is not NaN
FSgn(x) == IF IsInf(x) THEN x.v ELSE Sgn(x.v)

\* a * b / Unit and a * Unit / b on non-negative raw values, rounded down,
\* computed in pieces that stay within 32 bits
MulRaw(a, b) ==
    LET a1 == a \div Unit
        a0 == a % Unit
        b1 == b \div Unit
        b0 == b % Unit
    IN  a1 * b1 * Unit + a1 * b0 + a0 * b1 + (a0 * b0) \div Unit

RECURSIVE FracDigits(_, _, _)
FracDigits(r, b, n) ==
    IF n = 0 THEN 0
    ELSE LET t == r * 10
         IN  (t \div b) * (10 ^ (n - 1)) + FracDigits(t % b, b, n - 1)

DivRaw(a, b) == (a \div b) * Unit + FracDigits(a % b, b, 4)

FNeg(x) == IF IsNaN(x) THEN NaN ELSE IF IsInf(x) THEN Inf(-x.v) ELSE Num(-x.v)

FAdd(x, y) ==
    IF IsNaN(x) \/ IsNaN(y) THEN NaN
    ELSE IF IsInf(x) /\ IsInf(y) THEN (IF x.v = y.v THEN x ELSE NaN)
    ELSE IF IsInf(x) THEN x
    ELSE IF IsInf(y) THEN y
    ELSE Num(x.v + y.v)

FSub(x, y) == FAdd(x, FNeg(y))

FMul(x, y) ==
    IF IsNaN(x) \/ IsNaN(y) THEN NaN
    ELSE IF IsInf(x) \/ IsInf(y)
         THEN (IF FSgn(x) = 0 \/ FSgn(y) = 0 THEN NaN ELSE Inf(FSgn(x) * FSgn(y)))
    ELSE Num(Sgn(x.v) * Sgn(y.v) * MulRaw(Abs(x.v), Abs(y.v)))

FDiv(x, y) ==
    IF IsNaN(x) \/ IsNaN(y) THEN NaN
    ELSE IF IsInf(x) THEN (IF IsInf(y) THEN NaN
                           ELSE Inf(x.v * (IF y.v < 0 THEN -1 ELSE 1)))
    ELSE IF IsInf(y) THEN Num(0)
    ELSE IF y.v = 0 THEN (IF x.v = 0 THEN NaN ELSE Inf(Sgn(x.v)))
    ELSE Num(Sgn(x.v) * Sgn(y.v) * DivRaw(Abs(x.v), Abs(y.v)))

\* comparisons: false whenever an operand is NaN
FLt(x, y) ==
    IF IsNaN(x) \/ IsNaN(y) THEN FALSE
    ELSE IF IsInf(x) THEN x.v = -1 /\ ~(IsInf(y) /\ y.v = -1)
    ELSE IF IsInf(y) THEN y.v = 1
    ELSE x.v < y.v

FGt(x, y) == FLt(y, x)

\* s * s <= v * Unit, without forming either product in full
SquareLeq(s, v) ==
    LET q == MulRaw(s, s)
        r == ((s % Unit) * (s % Unit)) % Unit
    IN  q < v \/ (q = v /\ r = 0)

\* the largest s in lo..hi with s * s <= v * Unit (lo satisfies it)
RECURSIVE SqrtSearch(_, _, _)
SqrtSearch(v, lo, hi) ==
    IF lo >= hi THEN lo
    ELSE LET mid == (lo + hi + 1) \div 2
         IN  IF SquareLeq(mid, v) THEN SqrtSearch(v, mid, hi)
             ELSE SqrtSearch(v, lo, mid - 1)

\* numpy.sqrt: NaN below zero
FSqrt(x) ==
    IF IsNaN(x) THEN NaN
    ELSE IF IsInf(x) THEN (IF x.v = 1 THEN x ELSE NaN)
    ELSE IF x.v < 0 THEN NaN
    ELSE Num(SqrtSearch(x.v, 0, IF x.v < Unit THEN Unit ELSE x.v))

\* math.pi
PiRaw == 31415
pi == Num(PiRaw)
HalfPiRaw == 15707

\* cos on 0..pi/2 by its Taylor series
CosRaw(t) ==
    LET t2 == MulRaw(t, t)
        t4 == MulRaw(t2, t2)
        t6 == MulRaw(t4, t2)
        t8 == MulRaw(t6, t2)
        t10 == MulRaw(t8, t2)
    IN  Unit - t2 \div 2 + t4 \div 24 - t6 \div 720 + t8 \div 40320
             - t10 \div 3628800

\* the least t in lo..hi with cos(t) <= x (hi satisfies it)
RECURSIVE ArccosSearch(_, _, _)
ArccosSearch(x, lo, hi) ==
    IF lo >= hi THEN hi
    ELSE LET mid == (lo + hi) \div 2
         IN  IF CosRaw(mid) <= x THEN ArccosSearch(x, lo, mid)
             ELSE ArccosSearch(x, mid + 1, hi)

\* numpy.arccos: NaN outside [-1, 1]
arccos(x) ==
    IF ~IsNum(x) THEN NaN
    ELSE IF x.v > Unit \/ x.v < -Unit THEN NaN
    ELSE IF x.v >= 0 THEN Num(ArccosSearch(x.v, 0, HalfPiRaw + 1))
    ELSE Num(PiRaw - ArccosSearch(-x.v, 0, HalfPiRaw + 1))

(***************************************************************************)
(* Geometry.                                                               *)
(***************************************************************************)
Two == FromInt(2)

\* x ** 2
FSq(x) == FMul(x, x)

\* sphereIntersection(r1, r2, d): r1, r2 integer radii, d a float
sphereIntersection(r1, r2, d) ==
    LET valid == FLt(d, FromInt(r1 + r2)) /\ FGt(d, Num(0))
        formula ==
            FDiv(FMul(FMul(pi, FSq(FSub(FromInt(r1 + r2), d))),
                      FSub(FAdd(FAdd(FSq(d), FromInt(6 * r2 * r1)),
                                FMul(FMul(Two, d), FromInt(r1 + r2))),
                           FromInt(3 * (r1 - r2) * (r1 - r2)))),
                 FMul(FromInt(12), d))
    IN  FMul(formula, FromInt(IF valid THEN 1 ELSE 0))

\* circleIntersection(r1, r2, d): r1, r2 integer radii, d a float
circleIntersection(r1, r2, d) ==
    LET R1 == FromInt(r1)
        R2 == FromInt(r2)
    IN  FSub(FAdd(FMul(FromInt(r1 * r1),
                       arccos(FDiv(FSub(FAdd(FSq(d), FromInt(r1 * r1)),
                                        FromInt(r2 * r2)),
                                   FMul(FMul(Two, d), R1)))),
                  FMul(FromInt(r2 * r2),
                       arccos(FDiv(FSub(FAdd(FSq(d), FromInt(r2 * r2)),
                                        FromInt(r1 * r1)),
                                   FMul(FMul(Two, d), R2))))),
             FDiv(FSqrt(FMul(FMul(FMul(FAdd(FAdd(FNeg(d), R1), R2),
                                       FSub(FAdd(d, R1), R2)),
                                  FAdd(FSub(d, R1), R2)),
                             FAdd(FAdd(d, R1), R2))),
                  Two))

(***************************************************************************)
(* Arrays: a shape and a value per index tuple (0-based, as in numpy).     *)
(***************************************************************************)
None == "None"
\* an optional number: absent (Python's None) or present
Absent == <<>>
Some(x) == <<x>>

\* the index tuples of an array of this shape
RECURSIVE Indices(_)
Indices(shape) ==
    IF shape = <<>> THEN {<<>>}
    ELSE {<<i>> \o p : i \in 0..(Head(shape) - 1), p \in Indices(Tail(shape))}

\* the number of elements, and the row-major position of index p
RECURSIVE Size(_)
Size(shape) == IF shape = <<>> THEN 1 ELSE Head(shape) * Size(Tail(shape))

RECURSIVE Ravel(_, _, _)
Ravel(p, shape, acc) ==
    IF p = <<>> THEN acc
    ELSE Ravel(Tail(p), Tail(shape), acc * Head(shape) + Head(p))

\* lexicographic (row-major) order on index tuples of equal length
RECURSIVE LexLess(_, _)
LexLess(p, q) ==
    IF p = <<>> THEN FALSE
    ELSE IF Head(p) # Head(q) THEN Head(p) < Head(q)
    ELSE LexLess(Tail(p), Tail(q))

\* numpy.transpose(numpy.nonzero(mask)): the set S of true indices as rows
\* in row-major order
RECURSIVE RowMajor(_)
RowMajor(S) ==
    IF S = {} THEN <<>>
    ELSE LET first == CHOOSE p \in S : \A q \in S \ {p} : LexLess(p, q)
         IN  <<first>> \o RowMajor(S \ {first})

\* the index whose value numpy.roll(data, shift, axis) shows at p
Rolled(p, shift, axis, shape) ==
    [p EXCEPT ![axis] = (p[axis] - shift) % shape[axis]]

(***************************************************************************)
(* localMinima(data, threshold): data is [shape, dtype, val].              *)
(***************************************************************************)
\* the outcome of a call: a value, or the exception it raised
Returned(x) == [raised |-> "no", value |-> x]
Raised(kind) == [raised |-> kind, value |-> <<>>]

\* with threshold None the mask starts as ones(dtype=data.dtype), and the
\* in-place &= of a boolean array into a float array is rejected by numpy
localMinimaRaises(data, threshold) ==
    threshold = Absent /\ data.dtype = "float" /\ Len(data.shape) > 0

localMinimaMask(data, threshold) ==
    {p \in Indices(data.shape) :
        /\ (threshold # Absent => data.val[p] < threshold[1])
        /\ \A axis \in 1..Len(data.shape) :
              /\ data.val[p] <= data.val[Rolled(p, -1, axis, data.shape)]
              /\ data.val[p] <= data.val[Rolled(p, 1, axis, data.shape)]}

localMinima(data, threshold) ==
    IF localMinimaRaises(data, threshold) THEN Raised("TypeError")
    ELSE Returned(RowMajor(localMinimaMask(data, threshold)))

(***************************************************************************)
(* blobLOG(data, scales, threshold).  laplace[p] is what the library call  *)
(* gaussian_laplace(data, scales[p[1]]) gives at position Tail(p).         *)
(***************************************************************************)
ScaleSpace(shape, laplace, scales) ==
    LET volume == <<Len(scales)>> \o shape
    IN  [shape |-> volume,
         dtype |-> "float",
         val |-> [p \in Indices(volume) |->
                     scales[p[1] + 1] * scales[p[1] + 1] * laplace[p]]]

blobLOG(shape, laplace, scales, threshold) ==
    LET log == ScaleSpace(shape, laplace, scales)
        found == localMinima(log, threshold).value
    IN  [n \in 1..Len(found) |->
            [found[n] EXCEPT ![1] = scales[found[n][1] + 1]]]

(***************************************************************************)
(* The pruning stage of findBlobs.  A peak is a row <<scale, coords...>>.  *)
(***************************************************************************)
RECURSIVE SqDist(_, _)
SqDist(p, q) ==
    IF p = <<>> THEN 0
    ELSE (Head(p) - Head(q)) * (Head(p) - Head(q)) + SqDist(Tail(p), Tail(q))

\* the largest squared distance and radius the model forms
MaxSqDist == MaxCoord * MaxCoord + 1
Radii == 1..MaxScale

\* numpy.linalg.norm of an integer difference vector, by its squared length;
\* the values are computed once
normTable == [d2 \in 0..MaxSqDist |-> FSqrt(FromInt(d2))]
circleTable ==
    [r1 \in Radii, r2 \in Radii, d2 \in 0..MaxSqDist |->
        circleIntersection(r1, r2, normTable[d2])]
sphereTable ==
    [r1 \in Radii, r2 \in Radii, d2 \in 0..MaxSqDist |->
        sphereIntersection(r1, r2, normTable[d2])]

\* the intersection formula findBlobs selects for ndim spatial axes
Intersection(ndim, r1, r2, d2) ==
    IF ndim = 2 THEN circleTable[r1, r2, d2] ELSE sphereTable[r1, r2, d2]

FourThirds == Num(13333)

\* volumes = pi * radii ** 2, or 4/3 * pi * radii ** 3
Volume(ndim, r) ==
    IF ndim = 2 THEN FMul(pi, FromInt(r * r))
    ELSE FMul(FMul(FourThirds, pi), FromInt(r * r * r))

\* intersections[i, j]: radii and radii.T are the same 1-D array, and both
\* broadcast against the N x N distances along the last axis
intersections(ndim, rows, i, j) ==
    Intersection(ndim, rows[j][1], rows[j][1],
                 SqDist(Tail(rows[i]), Tail(rows[j])))

\* (volumes * max_overlap)[j], broadcast along the last axis
volumeLimit(ndim, rows, overlap, j) ==
    FMul(Volume(ndim, rows[j][1]), overlap)

tril(i, j) == j <= i
NoTieBreak(i, j) == TRUE

\* triu(ones((n, n)))[i, j]
triu(i, j) == j >= i

\* delete[i], lines 72-78
delete(ndim, rows, overlap, i) ==
    \E j \in 1..Len(rows) :
        /\ FGt(intersections(ndim, rows, i, j),
               volumeLimit(ndim, rows, overlap, j))
        /\ \/ rows[i][1] < rows[j][1]
           \/ (rows[i][1] = rows[j][1] /\ triu(i, j))

RECURSIVE MaskedKeepsDeleted(_, _)
MaskedKeepsDeleted(rows, drop) ==
    IF rows = <<>> THEN <<>>
    ELSE (IF Head(drop) THEN <<Head(rows)>> ELSE <<>>)
         \o MaskedKeepsDeleted(Tail(rows), Tail(drop))

\* peaks[~delete]
RECURSIVE Masked(_, _)
Masked(rows, drop) ==
    IF rows = <<>> THEN <<>>
    ELSE (IF Head(drop) THEN <<>> ELSE <<Head(rows)>>)
         \o Masked(Tail(rows), Tail(drop))

deleteMask(ndim, rows, overlap) ==
    [i \in 1..Len(rows) |-> delete(ndim, rows, overlap, i)]

\* lines 61-81 on a peak array
prune(ndim, rows, overlap) == Masked(rows, deleteMask(ndim, rows, overlap))

(***************************************************************************)
(* State.                                                                  *)
(***************************************************************************)
VARIABLES
    shape,       \* img.shape
    laplace,     \* gaussian_laplace(img, scale), stacked over the scales
    scales,      \* the scale set
    threshold,   \* findBlobs' threshold
    max_overlap, \* findBlobs' max_overlap
    errInvalid,  \* numpy's process-wide setting for 'invalid'
    old_errs,    \* the setting findBlobs saved at entry
    pc,          \* "start", "returned", "raised", "repruned"
    peaks,       \* blobLOG's result inside findBlobs
    deleted,     \* the delete mask
    blobs,       \* findBlobs' return value
    again,       \* the pruning stage applied to blobs
    call,        \* arguments of a call of one of the pure functions
    ret          \* its result

vars == <<shape, laplace, scales, threshold, max_overlap, errInvalid,
          old_errs, pc, peaks, deleted, blobs, again, call, ret>>

\* range(start, stop)
range(start, stop) ==
    [n \in 1..(IF stop > start THEN stop - start ELSE 0) |-> start + n - 1]

\* findBlobs' defaults: threshold=30, max_overlap=0.05
DefaultThreshold == 30
DefaultOverlap == Num(500)

SetMax(T) == IF T = {} THEN 0 ELSE CHOOSE x \in T : \A y \in T : y <= x

\* the subsets of 1..m with exactly n elements, and with at most n
RECURSIVE Exactly(_, _)
Exactly(m, n) ==
    IF n = 0 THEN {{}}
    ELSE UNION {{T \cup {x} : x \in (SetMax(T) + 1)..m} : T \in Exactly(m, n - 1)}

UpTo(m, n) == UNION {Exactly(m, k) : k \in 0..n}

NoCall == [fn |-> "none"]
NoResult == [done |-> FALSE, out |-> Returned(<<>>)]
Result(x) == [done |-> TRUE, out |-> x]

(***************************************************************************)
(* findBlobs(img, scales, threshold, max_overlap), lines 56-81.            *)
(***************************************************************************)
logThresholdUnsigned(t) == Some(t)

\* line 60: blobLOG is given threshold=-threshold
logThreshold(t) == Some(-t)

FindBlobs ==
    /\ pc = "start"
    /\ LET ndim == Len(shape)
           \* line 58: old_errs = seterr(invalid='ignore')
           saved == errInvalid
           \* line 60
           found == blobLOG(shape, laplace, scales, logThreshold(threshold))
       IN  /\ old_errs' = saved
           /\ peaks' = found
           /\ IF ndim \in {2, 3}
              THEN /\ deleted' = deleteMask(ndim, found, max_overlap)
                   /\ blobs' = Masked(found, deleted')
                   \* line 80: seterr(**old_errs)
                   /\ errInvalid' = saved
                   /\ pc' = "returned"
              ELSE \* line 72 raises (intersections was never assigned) with
                   \* the setting of line 58 still in force
                   /\ deleted' = <<>>
                   /\ blobs' = <<>>
                   /\ errInvalid' = "ignore"
                   /\ pc' = "raised"
    /\ UNCHANGED <<shape, laplace, scales, threshold, max_overlap, again,
                   call, ret>>

\* the pruning stage (lines 61-81) applied to the array findBlobs returned
PruneAgain ==
    /\ pc = "returned"
    /\ again' = prune(Len(shape), blobs, max_overlap)
    /\ pc' = "repruned"
    /\ UNCHANGED <<shape, laplace, scales, threshold, max_overlap,
                   errInvalid, old_errs, peaks, deleted, blobs, call, ret>>

(***************************************************************************)
(* Pruning inputs: the scale set range(1, MaxScale + 1) and every          *)
(* scale-space volume with at most MaxPeaks cells under the threshold.     *)
(***************************************************************************)
PruneShape(ndim) ==
    IF ndim = 2 THEN <<MaxCoord + 1, 2>> ELSE <<MaxCoord + 1, 1, 1>>

Init ==
    /\ \E ndim \in {2, 3} : shape = PruneShape(ndim)
    /\ scales = range(1, MaxScale + 1)
    /\ threshold = DefaultThreshold
    /\ LET volume == <<Len(scales)>> \o shape
       IN  \E S \in UpTo(Size(volume), MaxPeaks) :
              laplace = [p \in Indices(volume) |->
                            IF Ravel(p, volume, 0) + 1 \in S
                            THEN -(threshold + 1) ELSE 0]
    /\ max_overlap = DefaultOverlap
    /\ errInvalid = "warn"
    /\ old_errs = None
    /\ pc = "start"
    /\ peaks = <<>>
    /\ deleted = <<>>
    /\ blobs = <<>>
    /\ again = <<>>
    /\ call = NoCall
    /\ ret = NoResult

Next == FindBlobs \/ PruneAgain

Spec == Init /\ [][Next]_vars

(***************************************************************************)
(* Whole calls of findBlobs: images of 1 to 3 axes, MaxWidth samples long  *)
(* on the first axis, the scale sets range(1, stop) (empty for stop = 1),  *)
(* every response volume over LaplaceValues, and either error setting.     *)
(***************************************************************************)
MaxWidth == 2
LaplaceValues == {-1, 0}
Thresholds == {0, 1}

FindShape(ndim) == [a \in 1..ndim |-> IF a = 1 THEN MaxWidth ELSE 1]

InitFind ==
    /\ \E ndim \in 1..3 : shape = FindShape(ndim)
    /\ \E stop \in 1..(MaxScale + 1) : scales = range(1, stop)
    /\ threshold \in Thresholds
    /\ laplace \in [Indices(<<Len(scales)>> \o shape) -> LaplaceValues]
    /\ max_overlap = DefaultOverlap
    /\ errInvalid \in {"warn", "ignore"}
    /\ old_errs = None
    /\ pc = "start"
    /\ peaks = <<>>
    /\ deleted = <<>>
    /\ blobs = <<>>
    /\ again = <<>>
    /\ call = NoCall
    /\ ret = NoResult

NextFind == FindBlobs

SpecFind == InitFind /\ [][NextFind]_vars

(***************************************************************************)
(* peakEnclosed(peaks, shape, size): peaks is a sequence of positions.     *)
(***************************************************************************)
peakEnclosedInclusive(rows, imshape, size) ==
    [n \in 1..Len(rows) |->
        /\ \A a \in 1..Len(imshape) : size <= rows[n][a]
        /\ \A a \in 1..Len(imshape) : size <= imshape[a] - rows[n][a]]

peakEnclosed(rows, imshape, size) ==
    [n \in 1..Len(rows) |->
        /\ \A a \in 1..Len(imshape) : size <= rows[n][a]
        /\ \A a \in 1..Len(imshape) : size < imshape[a] - rows[n][a]]

(***************************************************************************)
(* Calls of the pure functions.                                            *)
(***************************************************************************)
CallLocalMinima ==
    /\ call.fn = "localMinima"
    /\ ~ret.done
    /\ ret' = Result(localMinima(call.data, call.threshold))
    /\ UNCHANGED <<shape, laplace, scales, threshold, max_overlap,
                   errInvalid, old_errs, pc, peaks, deleted, blobs, again,
                   call>>

CallPeakEnclosed ==
    /\ call.fn = "peakEnclosed"
    /\ ~ret.done
    /\ ret' = Result(Returned(peakEnclosed(call.peaks, call.shape, call.size)))
    /\ UNCHANGED <<shape, laplace, scales, threshold, max_overlap,
                   errInvalid, old_errs, pc, peaks, deleted, blobs, again,
                   call>>

CallSphereIntersection ==
    /\ call.fn = "sphereIntersection"
    /\ ~ret.done
    /\ ret' = Result(Returned(sphereIntersection(call.r1, call.r2, call.d)))
    /\ UNCHANGED <<shape, laplace, scales, threshold, max_overlap,
                   errInvalid, old_errs, pc, peaks, deleted, blobs, again,
                   call>>

\* no call of findBlobs in progress
Idle ==
    /\ shape = <<>>
    /\ laplace = <<>>
    /\ scales = <<>>
    /\ threshold = DefaultThreshold
    /\ max_overlap = DefaultOverlap
    /\ errInvalid = "warn"
    /\ old_errs = None
    /\ pc = "idle"
    /\ peaks = <<>>
    /\ deleted = <<>>
    /\ blobs = <<>>
    /\ again = <<>>

\* localMinima on every array of the shapes below with values 0..MaxValue,
\* of either dtype, with no threshold or one
MaxValue == 2
MinimaShapes == {<<3>>, <<2, 3>>}

InitMinima ==
    /\ Idle
    /\ \E s \in MinimaShapes, t \in {"int", "float"},
          v \in 0..MaxValue, some \in BOOLEAN :
          \E a \in [Indices(s) -> 0..MaxValue] :
             call = [fn |-> "localMinima",
                     data |-> [shape |-> s, dtype |-> t, val |-> a],
                     threshold |-> IF some THEN Some(v + 1) ELSE Absent]
    /\ ret = NoResult

SpecMinima == InitMinima /\ [][CallLocalMinima]_vars

\* peakEnclosed on one or two positions inside an image, margins 0..MaxEdge
MaxEdge == 2
EnclosedShape == <<4, 5>>

InitEnclosed ==
    /\ Idle
    /\ \E n \in 1..2, size \in 0..MaxEdge :
          \E rows \in [1..n -> Indices(EnclosedShape)] :
             call = [fn |-> "peakEnclosed", peaks |-> rows,
                     shape |-> EnclosedShape, size |-> size]
    /\ ret = NoResult

SpecEnclosed == InitEnclosed /\ [][CallPeakEnclosed]_vars

\* sphereIntersection on radii 1..MaxScale + 1 and distances -1, -1/2, 0, ...
InitSphere ==
    /\ Idle
    /\ \E r1 \in 1..(MaxScale + 1), r2 \in 1..(MaxScale + 1),
          h \in -2..(4 * MaxScale + 6) :
          call = [fn |-> "sphereIntersection", r1 |-> r1, r2 |-> r2,
                  d |-> Num(h * (Unit \div 2))]
    /\ ret = NoResult

SpecSphere == InitSphere /\ [][CallSphereIntersection]_vars

(***************************************************************************)
(* Properties of the pruning stage (specification Spec).                   *)
(***************************************************************************)
Pruned == pc \in {"returned", "repruned"}
Dim == Len(shape)
radius(i) == peaks[i][1]
SqDistance(i, j) == SqDist(Tail(peaks[i]), Tail(peaks[j]))

\* the intersection of blobs i and j, by the formula on radius i, radius j
\* and their distance, exceeds max_overlap times the reference of blob i
Exceeds(i, j) ==
    FGt(Intersection(Dim, radius(i), radius(j), SqDistance(i, j)),
        FMul(Volume(Dim, radius(i)), max_overlap))

\* blobs i < j of one radius whose overlap exceeds the threshold
Tied(i, j) == i < j /\ radius(i) = radius(j) /\ Exceeds(i, j)

\* C1: blob i is deleted exactly when some blob j has an intersection with
\* it (formula on radius i, radius j, distance) above max_overlap times the
\* reference area/volume of blob i, and i is smaller or loses the tie-break.
C1_DeletedIffOverlapped ==
    Pruned =>
        \A i \in 1..Len(peaks) :
            deleted[i] <=>
                \E j \in 1..Len(peaks) :
                    /\ Exceeds(i, j)
                    /\ \/ radius(i) < radius(j)
                       \/ (radius(i) = radius(j) /\ j >= i)

\* C2, as stated: of two distinct blobs of one radius whose overlap exceeds
\* the threshold, exactly one is retained, in every peak set.
C2_ExactlyOneRetained ==
    Pruned =>
        \A i, j \in 1..Len(peaks) : Tied(i, j) => deleted[i] # deleted[j]

\* some other blob, at least as large as blob j, overlaps j beyond the
\* threshold as findBlobs computes it
ThirdOverlaps(i, j) ==
    \E k \in 1..Len(peaks) \ {i, j} :
        /\ radius(k) >= radius(j)
        /\ FGt(intersections(Dim, peaks, j, k),
               volumeLimit(Dim, peaks, max_overlap, k))

\* C2, amended: of two blobs of one radius whose overlap exceeds the
\* threshold the two are never both kept, and exactly one is retained
\* unless a third blob, at least as large, overlaps the higher-indexed one.
C2_NeverBothKept ==
    Pruned =>
        \A i, j \in 1..Len(peaks) :
            Tied(i, j) =>
                /\ deleted[i] \/ deleted[j]
                /\ ~ThirdOverlaps(i, j) => deleted[i] # deleted[j]

\* C2 witness: three peaks, a tied pair with no third blob on the higher one
C2_Witness ==
    /\ pc = "returned"
    /\ Len(peaks) = 3
    /\ \E i, j \in 1..Len(peaks) :
          Tied(i, j) /\ ~ThirdOverlaps(i, j) /\ deleted[i] /\ ~deleted[j]

\* C3, as stated: of two blobs of equal radius whose overlap exceeds the
\* threshold the larger index is discarded and the lower index survives.
C3_LargerIndexDiscarded ==
    Pruned =>
        \A i, j \in 1..Len(peaks) : Tied(i, j) => deleted[j] /\ ~deleted[i]

\* C3, amended: the blob with the lower index is the one discarded; the one
\* with the higher index survives when the two are the whole peak set.
C3_LowerIndexDiscarded ==
    Pruned =>
        \A i, j \in 1..Len(peaks) :
            Tied(i, j) => deleted[i] /\ (Len(peaks) = 2 => ~deleted[j])

\* C3 witness: a peak set of two tied blobs, the first deleted
C3_Witness ==
    /\ pc = "returned"
    /\ Len(peaks) = 2
    /\ Tied(1, 2)
    /\ deleted = <<TRUE, FALSE>>
    /\ blobs = <<peaks[2]>>

\* C4: pruning the retained blobs again, in the same order and with the
\* same max_overlap, deletes nothing further.
C4_PruningIdempotent == pc = "repruned" => again = blobs

\* C4 witness: a first pass that deleted a blob and kept at least two
C4_Witness ==
    /\ pc = "repruned"
    /\ Len(blobs) >= 2
    /\ Len(blobs) < Len(peaks)
    /\ again = blobs

(***************************************************************************)
(* Properties of whole calls of findBlobs (specification SpecFind).        *)
(***************************************************************************)
\* the scale-normalized response at scale index k (0-based) and position q
Response(k, q) == scales[k + 1] * scales[k + 1] * laplace[<<k>> \o q]

\* C5: every blob returned sits at a scale and position whose
\* scale-normalized response is at most -threshold.
C5_ReturnedBelowThreshold ==
    pc = "returned" =>
        \A n \in 1..Len(blobs) :
            \E k \in 0..(Len(scales) - 1) :
                /\ scales[k + 1] = blobs[n][1]
                /\ Response(k, Tail(blobs[n])) <= -threshold

\* C5 witness: a blob is returned while a cell whose response equals
\* -threshold exactly is not
C5_Witness ==
    /\ pc = "returned"
    /\ Len(blobs) >= 1
    /\ \E p \in Indices(<<Len(scales)>> \o shape) :
          /\ Response(p[1], Tail(p)) = -threshold
          /\ \A n \in 1..Len(blobs) : Tail(blobs[n]) # Tail(p)

\* C9: a call with an empty scale set aborts with a failure and returns no
\* blob list.
C9_EmptyScalesFail == (pc # "start" /\ scales = <<>>) => pc = "raised"

\* C10: on every exit path, the 'invalid' setting equals its value before
\* the call.
C10_ErrSettingRestored ==
    pc \in {"returned", "raised"} => errInvalid = old_errs

(***************************************************************************)
(* Properties of the pure functions.                                       *)
(***************************************************************************)
\* the minima as the claim defines them
ClaimedMinima(data, t) ==
    {p \in Indices(data.shape) :
        /\ t = Absent \/ data.val[p] < t[1]
        /\ \A axis \in 1..Len(data.shape) :
              LET up == [p EXCEPT ![axis] = (p[axis] + 1) % data.shape[axis]]
                  down == [p EXCEPT ![axis] =
                              (p[axis] + data.shape[axis] - 1) % data.shape[axis]]
              IN  data.val[p] <= data.val[up] /\ data.val[p] <= data.val[down]}

\* C6: localMinima returns, in row-major order, exactly the indices that
\* pass the threshold (or all, with threshold None) and are <= both circular
\* neighbours on every axis.
C6_MinimaAsSpecified ==
    (ret.done /\ call.fn = "localMinima") =>
        /\ ret.out.raised = "no"
        /\ ret.out.value = RowMajor(ClaimedMinima(call.data, call.threshold))

\* C7: a position is enclosed iff every coordinate c satisfies size <= c
\* and c < shape[axis] - size.
C7_EnclosedIffInsideMargin ==
    (ret.done /\ call.fn = "peakEnclosed") =>
        \A n \in 1..Len(call.peaks) :
            ret.out.value[n] <=>
                \A a \in 1..Len(call.shape) :
                    /\ call.size <= call.peaks[n][a]
                    /\ call.peaks[n][a] < call.shape[a] - call.size

\* C7 witness: one position with a coordinate equal to size is enclosed,
\* another with a coordinate equal to shape[axis] - size is not
C7_Witness ==
    /\ ret.done
    /\ call.fn = "peakEnclosed"
    /\ call.size > 0
    /\ Len(call.peaks) = 2
    /\ call.peaks[1][1] = call.size
    /\ ret.out.value[1]
    /\ call.peaks[2][1] = call.shape[1] - call.size
    /\ call.peaks[2][2] = call.size
    /\ ~ret.out.value[2]

\* C8: sphereIntersection returns exactly 0, never NaN or infinity, when
\* d >= r1 + r2 or d <= 0.
C8_MaskedToZero ==
    (ret.done /\ call.fn = "sphereIntersection") =>
        ((call.d.v >= (call.r1 + call.r2) * Unit \/ call.d.v <= 0) =>
            ret.out.value = Num(0))

====
